---- MODULE Spec2Model ----
(***************************************************************************)
(* Verification model of mcp-server-middleware (src/src/mcp_middleware):   *)
(*   - mcp_payload.rs          the envelope decoder and the request model  *)
(*   - prompts_manager.rs /    the prompt and resource registries          *)
(*     resources_manager.rs                                                *)
(*   - mcp_output_contract.rs  the response compiler                       *)
(*   - mod.rs                  the session and stream modules it declares  *)
(* Five specifications share the variables:                                *)
(*   SpecDecode   one process decoding inbound envelopes                   *)
(*   Spec         the registries, their lookups and the initialize reply   *)
(*   SpecCompile  the response-compiling functions on their own            *)
(*   SpecScan     try_parse step by step: the loop, the checks, from_str   *)
(*   SpecSession  the session stages and the per-session output streams    *)
(* Rust Strings are TLA+ strings; Option<T> is None / Some(v).             *)
(***************************************************************************)
EXTENDS Integers, Sequences, FiniteSets, TLC

VARIABLES
    src,        \* SpecDecode: the envelope being decoded (the reader's items)
    parsed,     \* SpecDecode: what try_parse gave for src
    pc,         \* SpecDecode: "recv" before try_parse ran on src, "done" after
    alive,      \* SpecDecode: the process is still running
    prompts,    \* Spec: McpPrompts.prompts, a BTreeMap as its sorted entries
    resources,  \* Spec: McpResources.resources, likewise
    tools,      \* Spec: the tool registry (names only)
    added,      \* Spec: history, for each registry the last handle added per identity
    invoked,    \* Spec: the handles whose execute/read ran in the last operation
    op,         \* Spec, SpecCompile: the last operation and its arguments
    ret,        \* Spec, SpecCompile: what the last operation returned
    doc,        \* Spec, SpecCompile: the JSON object the last compile wrote
    locals,     \* SpecScan: try_parse's position in src and its four locals
    calls,      \* SpecScan: the calls of McpInputData::from_str made for src
    sessions,   \* SpecSession: each session's stage, handshake and output stream
    requests    \* SpecSession: the requests in flight

vars ==
    <<src, parsed, pc, alive, prompts, resources, tools, added, invoked, op, ret, doc,
      locals, calls, sessions, requests>>

decodeVars == <<src, parsed, pc, alive>>
registryVars == <<prompts, resources, tools, added, invoked>>
callVars == <<op, ret, doc>>
scanVars == <<locals, calls>>
sessionVars == <<sessions, requests>>

(***************************************************************************)
(* Option, Result                                                          *)
(***************************************************************************)
None == [some |-> FALSE]
Some(v) == [some |-> TRUE, v |-> v]

Ok(v) == [ok |-> TRUE, v |-> v]
Err(e) == [ok |-> FALSE, e |-> e]

(***************************************************************************)
(* Strings: characters, byte order, decimal integers                       *)
(***************************************************************************)
CharAt(s, i) == SubSeq(s, i, i)

\* The characters that occur in identities and numbers, in ascending byte
\* order; a character's rank stands for its byte value in comparisons.
ByteOrder == "+-./0123456789:ABCDEFGHIJKLMNOPQRSTUVWXYZ_abcdefghijklmnopqrstuvwxyz"

CharCode(c) == CHOOSE i \in 1..Len(ByteOrder) : CharAt(ByteOrder, i) = c

IsDigit(c) == c \in {"0", "1", "2", "3", "4", "5", "6", "7", "8", "9"}

RECURSIVE StrLess(_, _)
\* impl Ord for str: bytewise lexicographic, a proper prefix sorts first.
StrLess(a, b) ==
    IF b = "" THEN FALSE
    ELSE IF a = "" THEN TRUE
    ELSE IF CharAt(a, 1) = CharAt(b, 1)
         THEN StrLess(SubSeq(a, 2, Len(a)), SubSeq(b, 2, Len(b)))
         ELSE CharCode(CharAt(a, 1)) < CharCode(CharAt(b, 1))

\* str::contains
Contains(s, part) ==
    \E i \in 1..(Len(s) - Len(part) + 1) : SubSeq(s, i, i + Len(part) - 1) = part

(***************************************************************************)
(* i64.  A value is its sign and its decimal magnitude without leading     *)
(* zeros, so that the whole 64-bit range is kept.                          *)
(***************************************************************************)
I64Max == "9223372036854775807"
I64MinMag == "9223372036854775808"

I64(neg, mag) == [neg |-> neg, mag |-> mag]
I64Zero == I64(FALSE, "0")

AllDigits(s) == \A i \in 1..Len(s) : IsDigit(CharAt(s, i))

RECURSIVE StripZeros(_)
StripZeros(s) ==
    IF Len(s) > 1 /\ CharAt(s, 1) = "0" THEN StripZeros(SubSeq(s, 2, Len(s))) ELSE s

\* magnitude a exceeds magnitude b (both without leading zeros)
MagGreater(a, b) == Len(a) > Len(b) \/ (Len(a) = Len(b) /\ StrLess(b, a))

\* <i64 as FromStr>::from_str: an optional sign, then one or more digits, and
\* the value has to fit; anything else is a ParseIntError.
ParseI64(s) ==
    LET neg == Len(s) > 0 /\ CharAt(s, 1) = "-"
        signed == Len(s) > 0 /\ CharAt(s, 1) \in {"-", "+"}
        digits == IF signed THEN SubSeq(s, 2, Len(s)) ELSE s
        mag == StripZeros(digits)
    IN  IF digits = "" \/ ~AllDigits(digits) THEN Err("ParseIntError")
        ELSE IF MagGreater(mag, IF neg THEN I64MinMag ELSE I64Max) THEN Err("ParseIntError")
        ELSE Ok(I64(neg /\ mag # "0", mag))

\* i64's Display, as the JSON writer prints a number
I64ToString(n) == (IF n.neg THEN "-" ELSE "") \o n.mag

(***************************************************************************)
(* JSON values, as serde_json reads them from a params text                *)
(***************************************************************************)
JNull == [t |-> "null"]
JStr(s) == [t |-> "str", s |-> s]
JNum(n) == [t |-> "num", n |-> n]
JBool(b) == [t |-> "bool", b |-> b]
JObj(m) == [t |-> "obj", m |-> m]
JArr(e) == [t |-> "arr", e |-> e]
JRaw(s) == [t |-> "raw", s |-> s]
Member(k, v) == [k |-> k, v |-> v]

\* The params texts the model feeds to the decoder.
ParamTexts ==
    { "{}",
      "5",
      "{\"a\":1}",
      "{\"protocolVersion\":\"2025-03-26\",\"capabilities\":{}}",
      "{\"uri\":\"a\"}",
      "{\"name\":\"p\"}",
      "{\"name\":\"t\",\"arguments\":{\"x\":\"1\"}}",
      "{\"name\":\"t\",\"arguments\":{\"x\":1}}",
      "{\"cursor\":\"c1\"}",
      "{\"cursor\":5}" }

\* serde_json's reading of a text as a JSON value: the texts above, and a
\* syntax error for every other text (the empty text is "EOF while parsing").
JsonParse(text) ==
    CASE text = "{}" -> Ok(JObj(<<>>))
      [] text = "5" -> Ok(JNum("5"))
      [] text = "{\"a\":1}" -> Ok(JObj(<<Member("a", JNum("1"))>>))
      [] text = "{\"protocolVersion\":\"2025-03-26\",\"capabilities\":{}}" ->
            Ok(JObj(<<Member("protocolVersion", JStr("2025-03-26")),
                      Member("capabilities", JObj(<<>>))>>))
      [] text = "{\"uri\":\"a\"}" -> Ok(JObj(<<Member("uri", JStr("a"))>>))
      [] text = "{\"name\":\"p\"}" -> Ok(JObj(<<Member("name", JStr("p"))>>))
      [] text = "{\"name\":\"t\",\"arguments\":{\"x\":\"1\"}}" ->
            Ok(JObj(<<Member("name", JStr("t")),
                      Member("arguments", JObj(<<Member("x", JStr("1"))>>))>>))
      [] text = "{\"name\":\"t\",\"arguments\":{\"x\":1}}" ->
            Ok(JObj(<<Member("name", JStr("t")),
                      Member("arguments", JObj(<<Member("x", JNum("1"))>>))>>))
      [] text = "{\"cursor\":\"c1\"}" -> Ok(JObj(<<Member("cursor", JStr("c1"))>>))
      [] text = "{\"cursor\":5}" -> Ok(JObj(<<Member("cursor", JNum("5"))>>))
      [] OTHER -> Err("syntax error")

HasField(obj, name) == \E i \in 1..Len(obj.m) : obj.m[i].k = name
GetField(obj, name) == obj.m[CHOOSE i \in 1..Len(obj.m) : obj.m[i].k = name].v

\* #[derive(Deserialize)] struct, one field of it: a JSON object is wanted,
\* unknown members are skipped, a missing member is an error unless the
\* field is an Option.  p is serde_json's reading of the text.
visit_map(p, field, optional) ==
    IF ~p.ok THEN [ok |-> FALSE, e |-> p.e]
    ELSE IF p.v.t # "obj" THEN [ok |-> FALSE, e |-> "invalid type"]
    ELSE IF ~HasField(p.v, field)
         THEN (IF optional THEN [ok |-> TRUE, found |-> FALSE]
               ELSE [ok |-> FALSE, e |-> "missing field"])
    ELSE [ok |-> TRUE, found |-> TRUE, raw |-> GetField(p.v, field)]

DeStruct1(text, field, optional) == visit_map(JsonParse(text), field, optional)

\* Deserialize for String, Option<String>, Option<HashMap<String, String>>
\* and serde_json::Value, applied to what DeStruct1 found for the field
DeString(f) ==
    IF ~f.ok THEN Err(f.e)
    ELSE IF f.raw.t = "str" THEN Ok(f.raw.s)
    ELSE Err("invalid type")
DeOptionString(f) ==
    IF ~f.ok THEN Err(f.e)
    ELSE IF ~f.found THEN Ok(None)
    ELSE IF f.raw.t = "null" THEN Ok(None)
    ELSE IF f.raw.t = "str" THEN Ok(Some(f.raw.s))
    ELSE Err("invalid type")
DeOptionStringMap(f) ==
    IF ~f.ok THEN Err(f.e)
    ELSE IF ~f.found THEN Ok(None)
    ELSE IF f.raw.t = "null" THEN Ok(None)
    ELSE IF f.raw.t = "obj" /\ \A i \in 1..Len(f.raw.m) : f.raw.m[i].v.t = "str"
         THEN Ok(Some([i \in 1..Len(f.raw.m) |-> <<f.raw.m[i].k, f.raw.m[i].v.s>>]))
    ELSE Err("invalid type")
DeValue(f) == IF f.ok THEN Ok(f.raw) ELSE Err(f.e)

\* InitializeMpcContract { protocolVersion: String }
DeInitializeMpcContract(text) ==
    LET f == DeString(DeStruct1(text, "protocolVersion", FALSE))
    IN  IF f.ok THEN Ok([protocol_version |-> f.v]) ELSE f

\* ResourcesListModel { cursor: Option<String> }
DeResourcesListModel(text) ==
    LET f == DeOptionString(DeStruct1(text, "cursor", TRUE))
    IN  IF f.ok THEN Ok([cursor |-> f.v]) ELSE f

\* ReadResourceModel { uri: String }
DeReadResourceModel(text) ==
    LET f == DeString(DeStruct1(text, "uri", FALSE))
    IN  IF f.ok THEN Ok([uri |-> f.v]) ELSE f

\* SubscribeResourceModel { uri: String }
DeSubscribeResourceModel(text) ==
    LET f == DeString(DeStruct1(text, "uri", FALSE))
    IN  IF f.ok THEN Ok([uri |-> f.v]) ELSE f

\* GetPromptModel { name: String, arguments: Option<HashMap<String, String>> }
DeGetPromptModel(text) ==
    LET n == DeString(DeStruct1(text, "name", FALSE))
        a == DeOptionStringMap(DeStruct1(text, "arguments", TRUE))
    IN  IF ~n.ok THEN n
        ELSE IF ~a.ok THEN a
        ELSE Ok([name |-> n.v, arguments |-> a.v])

\* ExecuteToolCallModel { name: String, arguments: serde_json::Value }
DeExecuteToolCallModel(text) ==
    LET n == DeString(DeStruct1(text, "name", FALSE))
        a == DeValue(DeStruct1(text, "arguments", FALSE))
    IN  IF ~n.ok THEN n
        ELSE IF ~a.ok THEN a
        ELSE Ok([name |-> n.v, arguments |-> a.v])

(***************************************************************************)
(* mcp_payload.rs: McpInputData::from_str                                  *)
(* A call either returns a variant or panics (unwrap / panic!).            *)
(***************************************************************************)
Returns(data) == [panic |-> FALSE, data |-> data]
Panics(msg) == [panic |-> TRUE, msg |-> msg]

Initialize(m) == [tag |-> "Initialize", model |-> m]
ResourcesList(m) == [tag |-> "ResourcesList", model |-> m]
ReadResource(m) == [tag |-> "ReadResource", model |-> m]
SubscribeResource(m) == [tag |-> "SubscribeResource", model |-> m]
NotificationsInitialize == [tag |-> "NotificationsInitialize"]
ToolsList == [tag |-> "ToolsList"]
PromptsList == [tag |-> "PromptsList"]
ExecuteToolCall(m) == [tag |-> "ExecuteToolCall", model |-> m]
GetPrompt(m) == [tag |-> "GetPrompt", model |-> m]
Ping == [tag |-> "Ping"]
Other(method, data) == [tag |-> "Other", method |-> method, data |-> data]

\* "initialize" => serde_json::from_str(&params).unwrap()
from_str_initialize(params) ==
    LET model == DeInitializeMpcContract(params)
    IN  IF model.ok THEN Returns(Initialize(model.v))
        ELSE Panics("called Result::unwrap() on an Err value")

\* from_str_resources_list with the Err arm of its sibling arms: a panic
from_str_resources_list_strict(params) ==
    LET model == DeResourcesListModel(params)
    IN  IF model.ok THEN Returns(ResourcesList(model.v))
        ELSE Panics("Can not deserialize resources list data: " \o params)

\* "resources/list": Err(_) => ResourcesListModel { cursor: None }
from_str_resources_list(params) ==
    LET model == DeResourcesListModel(params)
    IN  IF model.ok THEN Returns(ResourcesList(model.v))
        ELSE Returns(ResourcesList([cursor |-> None]))

from_str_resources_read(params) ==
    LET model == DeReadResourceModel(params)
    IN  IF model.ok THEN Returns(ReadResource(model.v))
        ELSE Panics("Can not deserialize read resource data: " \o params)

\* from_str_resources_subscribe returning the variant of the arm above it
from_str_resources_subscribe_as_read(params) ==
    LET model == DeSubscribeResourceModel(params)
    IN  IF model.ok THEN Returns(ReadResource(model.v))
        ELSE Panics("Can not deserialize subscribe resource data: " \o params)

from_str_resources_subscribe(params) ==
    LET model == DeSubscribeResourceModel(params)
    IN  IF model.ok THEN Returns(SubscribeResource(model.v))
        ELSE Panics("Can not deserialize subscribe resource data: " \o params)

from_str_prompts_get(params) ==
    LET model == DeGetPromptModel(params)
    IN  IF model.ok THEN Returns(GetPrompt(model.v))
        ELSE Panics("Can not deserialize get prompt data: " \o params)

from_str_tools_call(params) ==
    LET model == DeExecuteToolCallModel(params)
    IN  IF model.ok THEN Returns(ExecuteToolCall(model.v))
        ELSE Panics("Can not deserialize execute too call data: " \o params)

from_str(method, params) ==
    CASE method = "initialize" -> from_str_initialize(params)
      [] method = "notifications/initialized" -> Returns(NotificationsInitialize)
      [] method = "resources/list" -> from_str_resources_list(params)
      [] method = "resources/read" -> from_str_resources_read(params)
      [] method = "resources/subscribe" -> from_str_resources_subscribe(params)
      [] method = "tools/list" -> Returns(ToolsList)
      [] method = "prompts/list" -> Returns(PromptsList)
      [] method = "prompts/get" -> from_str_prompts_get(params)
      [] method = "ping" -> Returns(Ping)
      [] method = "tools/call" -> from_str_tools_call(params)
      [] OTHER -> Returns(Other(method, params))

(***************************************************************************)
(* mcp_payload.rs: McpInputPayload::try_parse                              *)
(* src is what JsonFirstLineIterator yields for the buffer: one item per   *)
(* top-level member, its value None for JSON null, or a reader error.      *)
(***************************************************************************)
Item(name, value) == [err |-> FALSE, name |-> name, value |-> value]
BadItem == [err |-> TRUE, name |-> "", value |-> None]

TryOk(payload) == [kind |-> "Ok", payload |-> payload]
TryErr(msg) == [kind |-> "Err", msg |-> msg]
TryPanic(msg) == [kind |-> "Panic", msg |-> msg]

ScanStart == [version |-> None, method |-> None, id |-> None, params |-> None]

\* Option<i64>::unwrap_or_default
unwrap_or_default(id) == IF id.some THEN id.v ELSE I64Zero

\* ScanId without the if-let: a null id is refused like any non-number
ScanId_null_refused(st, value) ==
    IF ~value.some THEN Err("Id is not number. null")
    ELSE LET id_value == ParseI64(value.v)
         IN  IF ~id_value.ok THEN Err("Id is not number. " \o value.v)
             ELSE Ok([st EXCEPT !.id = Some(id_value.v)])

\* the "id" arm of the loop: a null value leaves id alone, a value that
\* does not parse ends try_parse with "Id is not number"
ScanId(st, value) ==
    IF ~value.some THEN Ok(st)
    ELSE LET id_value == ParseI64(value.v)
         IN  IF ~id_value.ok THEN Err("Id is not number. " \o value.v)
             ELSE Ok([st EXCEPT !.id = Some(id_value.v)])

\* one turn of the while-let loop
ScanItem(st, item) ==
    IF item.err THEN Err("JsonParseError")
    ELSE CASE item.name = "jsonrpc" -> Ok([st EXCEPT !.version = item.value])
           [] item.name = "method" -> Ok([st EXCEPT !.method = item.value])
           [] item.name = "id" -> ScanId(st, item.value)
           [] item.name = "params" -> Ok([st EXCEPT !.params = item.value])
           [] OTHER -> Ok(st)

RECURSIVE Scan(_, _, _)
Scan(items, i, st) ==
    IF i > Len(items) THEN Ok(st)
    ELSE LET next == ScanItem(st, items[i])
         IN  IF next.ok THEN Scan(items, i + 1, next.v) ELSE next

\* Ok(Self { _version, id, data }), unless from_str has panicked
McpInputPayload(version, id, data) ==
    IF data.panic THEN TryPanic(data.msg)
    ELSE TryOk([_version |-> version, id |-> id, data |-> data.data])

try_parse(items) ==
    LET scan == Scan(items, 1, ScanStart)
    IN  IF ~scan.ok THEN TryErr(scan.e)
        ELSE IF ~scan.v.version.some THEN TryErr("Version is null")
        ELSE IF ~scan.v.method.some THEN TryErr("Method is null")
        ELSE McpInputPayload(
                scan.v.version.v,
                unwrap_or_default(scan.v.id),
                from_str(scan.v.method.v,
                         IF scan.v.params.some THEN scan.v.params.v ELSE ""))

(***************************************************************************)
(* my_json's JsonObjectWriter as mcp_output_contract.rs uses it: an object *)
(* is the sequence of its members in the order they were written, and      *)
(* build() prints them in that order.                                      *)
(***************************************************************************)
JsonObjectWriterNew == <<>>

write(w, key, value) == Append(w, Member(key, value))
write_if(w, key, value, cond) == IF cond THEN write(w, key, value) ELSE w
write_json_object(w, key, obj) == Append(w, Member(key, JObj(obj)))
write_json_object_if(w, key, cond, obj) ==
    IF cond THEN write_json_object(w, key, obj) ELSE w
write_json_array(w, key, elems) == Append(w, Member(key, JArr(elems)))

RECURSIVE EscapeJson(_)
\* a string value is printed between quotes with quotes, backslashes and
\* line breaks escaped
EscapeJson(s) ==
    IF s = "" THEN ""
    ELSE LET c == CharAt(s, 1)
             e == CASE c = "\"" -> "\\\""
                    [] c = "\\" -> "\\\\"
                    [] c = "\n" -> "\\n"
                    [] OTHER -> c
         IN  e \o EscapeJson(SubSeq(s, 2, Len(s)))

RECURSIVE RenderValue(_)
RECURSIVE RenderMembers(_, _)
RECURSIVE RenderElems(_, _)
RenderValue(v) ==
    CASE v.t = "str" -> "\"" \o EscapeJson(v.s) \o "\""
      [] v.t = "num" -> v.n
      [] v.t = "bool" -> (IF v.b THEN "true" ELSE "false")
      [] v.t = "null" -> "null"
      [] v.t = "raw" -> v.s
      [] v.t = "obj" -> "{" \o RenderMembers(v.m, 1) \o "}"
      [] v.t = "arr" -> "[" \o RenderElems(v.e, 1) \o "]"
RenderMembers(m, i) ==
    IF i > Len(m) THEN ""
    ELSE (IF i > 1 THEN "," ELSE "")
         \o "\"" \o EscapeJson(m[i].k) \o "\":" \o RenderValue(m[i].v)
         \o RenderMembers(m, i + 1)
RenderElems(e, i) ==
    IF i > Len(e) THEN ""
    ELSE (IF i > 1 THEN "," ELSE "") \o RenderValue(e[i]) \o RenderElems(e, i + 1)

\* JsonObjectWriter::build / build_into
JsonBuild(w) == RenderValue(JObj(w))

JI64(n) == JNum(I64ToString(n))

(***************************************************************************)
(* mcp_output_contract.rs.  For each function, X_json is the object it has *)
(* written when it calls build, X the String it returns.                   *)
(***************************************************************************)
\* fn build(json, id): jsonrpc and id are written after what json holds
build_json(json, id) == write(write(json, "jsonrpc", JStr("2.0")), "id", JI64(id))
build(json, id) == ("data: " \o JsonBuild(build_json(json, id)) \o "\n") \o "\n"

\* result.insert_str(0, "data: "); result.push('\n'); result.push('\n')
Framed(json) == ("data: " \o json \o "\n") \o "\n"

\* JsonObjectWriter::new().write("jsonrpc", "2.0").write("id", id)
\*     .write_json_object("result", ...)
Response(id, result) ==
    write_json_object(
        write(write(JsonObjectWriterNew, "jsonrpc", JStr("2.0")), "id", JI64(id)),
        "result", result)

\* JsonObjectWriter::new().write_json_object("result", ...), handed to build
JsonBuilder(result) == write_json_object(JsonObjectWriterNew, "result", result)

ListChanged == write(JsonObjectWriterNew, "listChanged", JBool(TRUE))

compile_init_response_result(name, version, instructions, protocol_version, has_tools, has_resources, has_prompts) ==
    LET cap == write_json_object_if(
                 write_json_object_if(
                   write_json_object_if(JsonObjectWriterNew,
                     "resources", has_resources, ListChanged),
                   "tools", has_tools, ListChanged),
                 "prompts", has_prompts, ListChanged)
        server_info == write(write(JsonObjectWriterNew, "name", JStr(name)),
                             "version", JStr(version))
    IN  write(
          write_json_object(
            write_json_object(
              write(JsonObjectWriterNew, "protocolVersion", JStr(protocol_version)),
              "capabilities", cap),
            "serverInfo", server_info),
          "instructions", JStr(instructions))

compile_init_response_json(name, version, instructions, protocol_version, id, has_tools, has_resources, has_prompts) ==
    build_json(JsonBuilder(compile_init_response_result(name, version, instructions,
        protocol_version, has_tools, has_resources, has_prompts)), id)

compile_init_response(name, version, instructions, protocol_version, id, has_tools, has_resources, has_prompts) ==
    build(JsonBuilder(compile_init_response_result(name, version, instructions,
        protocol_version, has_tools, has_resources, has_prompts)), id)

\* tools: Vec<ToolCallSchemaData>
compile_tool_calls_result(tools_list) ==
    write_json_array(JsonObjectWriterNew, "tools",
        [i \in 1..Len(tools_list) |->
            JObj(write_json_object(
                   write_json_object(
                     write(write(JsonObjectWriterNew,
                       "name", JStr(tools_list[i].fn_name)),
                       "description", JStr(tools_list[i].description)),
                     "inputSchema", tools_list[i].input),
                   "outputSchema", tools_list[i].output))])

compile_tool_calls_json(tools_list, id) ==
    build_json(JsonBuilder(compile_tool_calls_result(tools_list)), id)
compile_tool_calls(tools_list, id) ==
    build(JsonBuilder(compile_tool_calls_result(tools_list)), id)

ArgumentJson(arg) ==
    JObj(write(write(write(JsonObjectWriterNew,
        "name", JStr(arg.name)),
        "description", JStr(arg.description)),
        "required", JBool(arg.required)))

\* prompts: Vec<PromptSchemaData>
compile_prompts_list_result(list) ==
    write_json_array(JsonObjectWriterNew, "prompts",
        [i \in 1..Len(list) |->
            JObj(write_json_array(
                   write(write(JsonObjectWriterNew,
                     "name", JStr(list[i].prompt.prompt_name)),
                     "description", JStr(list[i].prompt.description)),
                   "arguments",
                   [j \in 1..Len(list[i].argument_descriptions) |->
                       ArgumentJson(list[i].argument_descriptions[j])]))])

compile_prompts_list_json(list, id) ==
    build_json(JsonBuilder(compile_prompts_list_result(list)), id)
compile_prompts_list(list, id) ==
    build(JsonBuilder(compile_prompts_list_result(list)), id)

\* response: PromptExecutionResult
compile_get_prompt_response_json(response, id) ==
    Response(id,
        write_json_array(
          write(JsonObjectWriterNew, "description", JStr(response.description)),
          "messages",
          <<JObj(write_json_object(
                   write(JsonObjectWriterNew, "role", JStr("user")),
                   "content",
                   write(write(JsonObjectWriterNew, "type", JStr("text")),
                         "text", JStr(response.message))))>>))
compile_get_prompt_response(response, id) ==
    Framed(JsonBuild(compile_get_prompt_response_json(response, id)))

IconJson(icon) ==
    JObj(write_json_array(
           write(write(JsonObjectWriterNew, "src", JStr(icon.src)),
                 "mimeType", JStr(icon.mime_type)),
           "sizes", [k \in 1..Len(icon.sizes) |-> JStr(icon.sizes[k])]))

\* ResourceJson writing every optional member, null or [] when there is none
ResourceJson_placeholders(resource) ==
    JObj(write_json_array(
           write(write(write(write(write(write(JsonObjectWriterNew,
             "uri", JStr(resource.resource_uri)),
             "name", JStr(resource.resource_name)),
             "description", JStr(resource.description)),
             "mimeType", JStr(resource.mime_type)),
             "title", IF resource.title.some THEN JStr(resource.title.v) ELSE JNull),
             "size", IF resource.size.some THEN JNum(resource.size.v) ELSE JNull),
           "icons", [j \in 1..Len(resource.icons) |-> IconJson(resource.icons[j])]))

ResourceJson(resource) ==
    LET base == write(write(write(write(JsonObjectWriterNew,
                    "uri", JStr(resource.resource_uri)),
                    "name", JStr(resource.resource_name)),
                    "description", JStr(resource.description)),
                    "mimeType", JStr(resource.mime_type))
        titled == IF resource.title.some
                  THEN write(base, "title", JStr(resource.title.v)) ELSE base
        sized == IF resource.size.some
                 THEN write(titled, "size", JNum(resource.size.v)) ELSE titled
    IN  JObj(IF resource.icons # <<>>
             THEN write_json_array(sized, "icons",
                    [j \in 1..Len(resource.icons) |-> IconJson(resource.icons[j])])
             ELSE sized)

\* resources: Vec<ResourceSchemaData>, next_cursor: Option<&str>
compile_resources_list_result(list, next_cursor) ==
    LET result == write_json_array(JsonObjectWriterNew, "resources",
                    [i \in 1..Len(list) |-> ResourceJson(list[i].resource)])
    IN  IF next_cursor.some THEN write(result, "nextCursor", JStr(next_cursor.v))
        ELSE result

compile_resources_list_json(list, id, next_cursor) ==
    build_json(JsonBuilder(compile_resources_list_result(list, next_cursor)), id)
compile_resources_list(list, id, next_cursor) ==
    build(JsonBuilder(compile_resources_list_result(list, next_cursor)), id)

ContentJson(content) ==
    LET base == write(write(JsonObjectWriterNew,
                    "uri", JStr(content.uri)), "mimeType", JStr(content.mime_type))
        texted == IF content.text.some
                  THEN write(base, "text", JStr(content.text.v)) ELSE base
    IN  JObj(IF content.blob.some
             THEN write(texted, "blob", JStr(content.blob.v)) ELSE texted)

\* response: ResourceReadResult
compile_read_resource_response_json(response, id) ==
    Response(id,
        write_json_array(JsonObjectWriterNew, "contents",
            [i \in 1..Len(response.contents) |-> ContentJson(response.contents[i])]))
compile_read_resource_response(response, id) ==
    Framed(JsonBuild(compile_read_resource_response_json(response, id)))

\* compile_execute_tool_call_response with write_if on is_error, not !is_error
compile_execute_tool_call_response_json_inverted(response, id, is_error) ==
    Response(id,
        write(
          write_if(
            write_json_array(JsonObjectWriterNew, "content",
              <<JObj(write(write(JsonObjectWriterNew, "type", JStr("text")),
                           "text", JStr(response)))>>),
            "structuredContent", JRaw(response), is_error),
          "isError", JBool(is_error)))

compile_execute_tool_call_response_json(response, id, is_error) ==
    Response(id,
        write(
          write_if(
            write_json_array(JsonObjectWriterNew, "content",
              <<JObj(write(write(JsonObjectWriterNew, "type", JStr("text")),
                           "text", JStr(response)))>>),
            "structuredContent", JRaw(response), ~is_error),
          "isError", JBool(is_error)))
compile_execute_tool_call_response(response, id, is_error) ==
    Framed(JsonBuild(compile_execute_tool_call_response_json(response, id, is_error)))

build_ping_response_json(id) == Response(id, JsonObjectWriterNew)
build_ping_response(id) == Framed(JsonBuild(build_ping_response_json(id)))

(***************************************************************************)
(* std::collections::BTreeMap<String, Arc<dyn ...>>: the entries in        *)
(* ascending key order, one per key.                                       *)
(***************************************************************************)
BTreeMapNew == <<>>

Entry(k, v) == [k |-> k, v |-> v]

\* BTreeInsert as entry(key).or_insert(value): an equal key keeps its value
BTreeInsert_keep_existing(map, key, value) ==
    IF \E i \in 1..Len(map) : map[i].k = key
    THEN map
    ELSE LET below == Cardinality({ i \in 1..Len(map) : StrLess(map[i].k, key) })
         IN  (SubSeq(map, 1, below) \o <<Entry(key, value)>>)
             \o SubSeq(map, below + 1, Len(map))

\* BTreeInsert as a Vec kept in registration order: a new key goes last
BTreeInsert_push_back(map, key, value) ==
    IF \E i \in 1..Len(map) : map[i].k = key
    THEN [i \in 1..Len(map) |-> IF map[i].k = key THEN Entry(key, value) ELSE map[i]]
    ELSE Append(map, Entry(key, value))

\* BTreeMap::insert: the value of an equal key is replaced, a new key goes
\* after every smaller key
BTreeInsert(map, key, value) ==
    IF \E i \in 1..Len(map) : map[i].k = key
    THEN [i \in 1..Len(map) |-> IF map[i].k = key THEN Entry(key, value) ELSE map[i]]
    ELSE LET below == Cardinality({ i \in 1..Len(map) : StrLess(map[i].k, key) })
         IN  (SubSeq(map, 1, below) \o <<Entry(key, value)>>)
             \o SubSeq(map, below + 1, Len(map))

\* BTreeMap::get
BTreeGet(map, key) ==
    IF \E i \in 1..Len(map) : map[i].k = key
    THEN Some(map[CHOOSE i \in 1..Len(map) : map[i].k = key].v)
    ELSE None

\* BTreeMap::values: the values in key order
BTreeValues(map) == [i \in 1..Len(map) |-> map[i].v]

BTreeIsEmpty(map) == Len(map) = 0

(***************************************************************************)
(* The capability handles.  A handle is an Arc<dyn McpPromptAbstract> or   *)
(* Arc<dyn McpResourceAbstract>: its declared identity and metadata, and   *)
(* inst to tell apart two handles declared under one identity.             *)
(***************************************************************************)
MaxInstances == 2

PromptNames == { "B", "a", "ab" }
ResourceUris == { "f:a", "f:ab" }
ToolNames == { "t" }

PromptArgumentDescription(name, description, required) ==
    [name |-> name, description |-> description, required |-> required]

ResourceIcon(icon_src, mime_type, sizes) ==
    [src |-> icon_src, mime_type |-> mime_type, sizes |-> sizes]

\* struct PromptExecutor
PromptExecutor(name, inst) ==
    [prompt_name |-> name,
     description |-> "prompt " \o name,
     argument_descriptions |->
        IF inst = 1 THEN <<>>
        ELSE <<PromptArgumentDescription("x", "an argument", inst % 2 = 0)>>,
     inst |-> inst]

\* struct ResourceExecutor
ResourceExecutor(uri, inst) ==
    [resource_uri |-> uri,
     resource_name |-> "resource",
     description |-> "resource " \o uri,
     mime_type |-> "text/plain",
     title |-> IF inst = 1 THEN None ELSE Some("Title"),
     size |-> IF inst % 2 = 0 THEN Some("1024") ELSE None,
     icons |-> IF inst = 1 THEN <<>> ELSE <<ResourceIcon("i.png", "image/png", <<>>)>>,
     inst |-> inst]

PromptHandles == { PromptExecutor(n, i) : n \in PromptNames, i \in 1..MaxInstances }
ResourceHandles == { ResourceExecutor(u, i) : u \in ResourceUris, i \in 1..MaxInstances }

\* What a handle's execute / read may return: the handler is the feature
\* module's own code, so either outcome, tagged with the handle that ran.
HandlerResults(handle, input) ==
    { Ok([by |-> handle, input |-> input, text |-> "done"]),
      Err([by |-> handle, input |-> input, text |-> "failed"]) }

(***************************************************************************)
(* prompts_manager.rs: McpPrompts                                          *)
(***************************************************************************)
McpPrompts_new == BTreeMapNew

McpPrompts_add(self, executor) == BTreeInsert(self, executor.prompt_name, executor)

\* the possible outcomes of execute: what it returns and the handles it ran
McpPrompts_execute(self, prompt_name, input) ==
    IF BTreeGet(self, prompt_name).some
    THEN { [ret |-> r, invoked |-> <<BTreeGet(self, prompt_name).v>>] :
             r \in HandlerResults(BTreeGet(self, prompt_name).v, input) }
    ELSE { [ret |-> Err(("Prompt with name " \o prompt_name) \o " is not found"),
            invoked |-> <<>>] }

McpPrompts_get_list(self) ==
    [i \in 1..Len(self) |->
        [prompt |-> BTreeValues(self)[i],
         argument_descriptions |-> BTreeValues(self)[i].argument_descriptions]]

McpPrompts_get(self, name) == BTreeGet(self, name)

McpPrompts_has_prompts(self) == ~BTreeIsEmpty(self)

(***************************************************************************)
(* resources_manager.rs: McpResources                                      *)
(***************************************************************************)
McpResources_new == BTreeMapNew

McpResources_add(self, executor) == BTreeInsert(self, executor.resource_uri, executor)

\* McpResources_read falling back to the first registered resource on a miss
McpResources_read_fallback(self, uri) ==
    IF BTreeGet(self, uri).some
    THEN { [ret |-> r, invoked |-> <<BTreeGet(self, uri).v>>] :
             r \in HandlerResults(BTreeGet(self, uri).v, uri) }
    ELSE IF Len(self) > 0
    THEN { [ret |-> r, invoked |-> <<self[1].v>>] : r \in HandlerResults(self[1].v, uri) }
    ELSE { [ret |-> Err(("Resource with URI " \o uri) \o " is not found"),
            invoked |-> <<>>] }

McpResources_read(self, uri) ==
    IF BTreeGet(self, uri).some
    THEN { [ret |-> r, invoked |-> <<BTreeGet(self, uri).v>>] :
             r \in HandlerResults(BTreeGet(self, uri).v, uri) }
    ELSE { [ret |-> Err(("Resource with URI " \o uri) \o " is not found"),
            invoked |-> <<>>] }

McpResources_get_list(self) ==
    [i \in 1..Len(self) |-> [resource |-> BTreeValues(self)[i]]]

McpResources_get(self, uri) == BTreeGet(self, uri)

\* has_resources without the negation
McpResources_has_resources_inverted(self) == BTreeIsEmpty(self)

McpResources_has_resources(self) == ~BTreeIsEmpty(self)

(***************************************************************************)
(* The tool registry (module tool_calls) and the initialize handler        *)
(* (module mcp_middleware), after sections 4.2 and 4.3 of the              *)
(* specification: a registry of the same shape, asked has_any() when the   *)
(* initialize response is compiled.                                        *)
(***************************************************************************)
McpToolCalls_add(self, name) == self \cup { name }
McpToolCalls_has_tools(self) == self # {}

(***************************************************************************)
(* SpecDecode: a process that decodes one envelope after another           *)
(***************************************************************************)
MaxItems == 3

SupportedMethods ==
    { "initialize", "notifications/initialized", "tools/list", "tools/call",
      "resources/list", "resources/read", "resources/subscribe",
      "prompts/list", "prompts/get", "ping" }
UnknownMethods == { "foo/bar", "tools/List" }

IdTexts == { "7", "-12", "1.5", "9223372036854775807", "9223372036854775808" }

\* the members the scan is exercised with, in every order and repetition
ScanItems ==
    { Item("jsonrpc", Some("2.0")), Item("jsonrpc", None) }
    \cup { Item("method", Some(m)) : m \in { "ping", "foo/bar", "resources/read" } }
    \cup { Item("method", None) }
    \cup { Item("id", Some(t)) : t \in IdTexts }
    \cup { Item("id", None) }
    \cup { Item("params", Some(t)) : t \in { "{}", "{\"uri\":\"a\"}" } }
    \cup { Item("params", None) }
    \cup { Item("extra", Some("1")), BadItem }

ScanEnvelopes == UNION { [1..n -> ScanItems] : n \in 0..MaxItems }

\* every method with every params text, laid out as the envelope of
\* tests::test_init_payload: jsonrpc, method, id, params
MethodEnvelopes ==
    { <<Item("jsonrpc", Some("2.0")), Item("method", Some(m)), Item("id", Some("1"))>> \o p :
        m \in SupportedMethods \cup UnknownMethods,
        p \in { <<>>, <<Item("params", None)>> }
              \cup { <<Item("params", Some(t))>> : t \in ParamTexts } }

Envelopes == ScanEnvelopes \cup MethodEnvelopes

FollowUps ==
    { <<Item("jsonrpc", Some("2.0")), Item("method", Some("ping")), Item("id", Some("7"))>>,
      <<Item("jsonrpc", Some("2.0")), Item("method", Some("resources/read"))>> }

NotParsed == [kind |-> "None"]
Idle == [name |-> "idle"]

RegistryIdle ==
    /\ prompts = <<>>
    /\ resources = <<>>
    /\ tools = {}
    /\ added = [prompts |-> {}, resources |-> {}]
    /\ invoked = <<>>
CallIdle == op = Idle /\ ret = None /\ doc = None
ScanIdle == locals = [i |-> 0, st |-> ScanStart] /\ calls = <<>>

\* the sessions a transport may open, and a session nobody has opened yet
SessionIds == { "s1", "s2" }
NoSession == [stage |-> "None", init_sent |-> FALSE, notified |-> FALSE,
              output |-> "none", frames |-> <<>>, taken |-> 0]
SessionIdle == sessions = [s \in SessionIds |-> NoSession] /\ requests = {}
DecodeIdle == src = <<>> /\ parsed = NotParsed /\ pc = "idle" /\ alive = TRUE

InitDecode ==
    /\ src \in Envelopes
    /\ parsed = NotParsed
    /\ pc = "recv"
    /\ alive = TRUE
    /\ RegistryIdle
    /\ CallIdle
    /\ ScanIdle
    /\ SessionIdle

\* try_parse returns, with a payload or an error, to its caller
DecodeReturns ==
    /\ alive /\ pc = "recv"
    /\ parsed' = try_parse(src)
    /\ parsed'.kind # "Panic"
    /\ pc' = "done"
    /\ UNCHANGED <<src, alive>>
    /\ UNCHANGED <<registryVars, callVars, scanVars, sessionVars>>

\* try_parse panics inside from_str: nothing is returned.  The unwinding
\* is either stopped by the task that ran the request, or (panic = "abort",
\* or no handler above) it ends the process.
DecodePanics ==
    /\ alive /\ pc = "recv"
    /\ parsed' = try_parse(src)
    /\ parsed'.kind = "Panic"
    /\ pc' = "done"
    /\ alive' \in BOOLEAN
    /\ UNCHANGED src
    /\ UNCHANGED <<registryVars, callVars, scanVars, sessionVars>>

\* the next inbound request of a process that is still running
Receive ==
    /\ alive /\ pc = "done"
    /\ src' \in FollowUps
    /\ parsed' = NotParsed
    /\ pc' = "recv"
    /\ UNCHANGED alive
    /\ UNCHANGED <<registryVars, callVars, scanVars, sessionVars>>

NextDecode == DecodeReturns \/ DecodePanics \/ Receive

SpecDecode == InitDecode /\ [][NextDecode]_vars

(***************************************************************************)
(* SpecScan: McpInputPayload::try_parse step by step.  pc is "scan" inside *)
(* the while-let loop, "call" between the two let-else checks and the      *)
(* match on params, "done" once try_parse has returned or panicked.        *)
(***************************************************************************)
InitScan ==
    /\ src \in Envelopes
    /\ parsed = NotParsed
    /\ pc = "scan"
    /\ alive = TRUE
    /\ locals = [i |-> 0, st |-> ScanStart]
    /\ calls = <<>>
    /\ RegistryIdle
    /\ CallIdle
    /\ SessionIdle

\* a turn of the loop that goes on to the next item
ScanTurn ==
    /\ alive /\ pc = "scan"
    /\ locals.i < Len(src)
    /\ ScanItem(locals.st, src[locals.i + 1]).ok
    /\ locals' = [i |-> locals.i + 1, st |-> ScanItem(locals.st, src[locals.i + 1]).v]
    /\ UNCHANGED <<src, parsed, pc, alive, calls>>
    /\ UNCHANGED <<registryVars, callVars, sessionVars>>

\* a turn of the loop that returns: a reader error (the two `?`) or an id
\* that does not parse
ScanFails ==
    /\ alive /\ pc = "scan"
    /\ locals.i < Len(src)
    /\ ~ScanItem(locals.st, src[locals.i + 1]).ok
    /\ parsed' = TryErr(ScanItem(locals.st, src[locals.i + 1]).e)
    /\ pc' = "done"
    /\ UNCHANGED <<src, alive, locals, calls>>
    /\ UNCHANGED <<registryVars, callVars, sessionVars>>

\* get_next() gave None and one of the two let-else returns
ScanRefuses ==
    /\ alive /\ pc = "scan"
    /\ locals.i = Len(src)
    /\ ~locals.st.version.some \/ ~locals.st.method.some
    /\ parsed' = IF ~locals.st.version.some THEN TryErr("Version is null")
                 ELSE TryErr("Method is null")
    /\ pc' = "done"
    /\ UNCHANGED <<src, alive, locals, calls>>
    /\ UNCHANGED <<registryVars, callVars, sessionVars>>

\* ScanCompletes with a loop that may be left before get_next() gave None
ScanCompletes_early ==
    /\ alive /\ pc = "scan"
    /\ locals.i <= Len(src)
    /\ locals.st.version.some /\ locals.st.method.some
    /\ pc' = "call"
    /\ UNCHANGED <<src, parsed, alive, locals, calls>>
    /\ UNCHANGED <<registryVars, callVars, sessionVars>>

\* get_next() gave None and both let-else bind: on to the match on params
ScanCompletes ==
    /\ alive /\ pc = "scan"
    /\ locals.i = Len(src)
    /\ locals.st.version.some /\ locals.st.method.some
    /\ pc' = "call"
    /\ UNCHANGED <<src, parsed, alive, locals, calls>>
    /\ UNCHANGED <<registryVars, callVars, sessionVars>>

\* the match on params: from_str is called with the params text, or with
\* String::new(); it returns the data of the payload, or panics (and the
\* unwinding is stopped above, or ends the process)
Deserialize ==
    /\ alive /\ pc = "call"
    /\ calls' = Append(calls,
                    [method |-> locals.st.method.v,
                     params |-> IF locals.st.params.some THEN locals.st.params.v ELSE ""])
    /\ parsed' = McpInputPayload(
                    locals.st.version.v,
                    unwrap_or_default(locals.st.id),
                    from_str(calls'[Len(calls')].method, calls'[Len(calls')].params))
    /\ pc' = "done"
    /\ alive' \in IF parsed'.kind = "Panic" THEN BOOLEAN ELSE { TRUE }
    /\ UNCHANGED <<src, locals>>
    /\ UNCHANGED <<registryVars, callVars, sessionVars>>

NextScan == ScanTurn \/ ScanFails \/ ScanRefuses \/ ScanCompletes \/ Deserialize

SpecScan == InitScan /\ [][NextScan]_vars

(***************************************************************************)
(* Spec: the registries, their lookups and the initialize response         *)
(***************************************************************************)
RequestIds == { I64(FALSE, "7") }

\* identities that are looked up: the declared ones and one never declared
LookupNames == PromptNames \cup { "none" }
LookupUris == ResourceUris \cup { "f:none" }

\* history: the handle last added under each identity
LatestPrompts(history, handle) ==
    { h \in history : h.prompt_name # handle.prompt_name } \cup { handle }
LatestResources(history, handle) ==
    { h \in history : h.resource_uri # handle.resource_uri } \cup { handle }

Init ==
    /\ prompts = McpPrompts_new
    /\ resources = McpResources_new
    /\ tools = {}
    /\ added = [prompts |-> {}, resources |-> {}]
    /\ invoked = <<>>
    /\ CallIdle
    /\ DecodeIdle
    /\ ScanIdle
    /\ SessionIdle

PromptsAdd ==
    \E executor \in PromptHandles :
        /\ prompts' = McpPrompts_add(prompts, executor)
        /\ added' = [added EXCEPT !.prompts = LatestPrompts(@, executor)]
        /\ op' = [name |-> "McpPrompts::add", executor |-> executor]
        /\ ret' = None /\ doc' = None /\ invoked' = <<>>
        /\ UNCHANGED <<resources, tools, decodeVars, scanVars, sessionVars>>

PromptsGet ==
    \E name \in LookupNames :
        /\ ret' = McpPrompts_get(prompts, name)
        /\ op' = [name |-> "McpPrompts::get", identity |-> name]
        /\ doc' = None /\ invoked' = <<>>
        /\ UNCHANGED <<prompts, resources, tools, added, decodeVars, scanVars, sessionVars>>

PromptsGetList ==
    /\ ret' = McpPrompts_get_list(prompts)
    /\ op' = [name |-> "McpPrompts::get_list"]
    /\ doc' = None /\ invoked' = <<>>
    /\ UNCHANGED <<prompts, resources, tools, added, decodeVars, scanVars, sessionVars>>

PromptsExecute ==
    \E name \in LookupNames :
        \E outcome \in McpPrompts_execute(prompts, name, "{}") :
            /\ ret' = outcome.ret
            /\ invoked' = outcome.invoked
            /\ op' = [name |-> "McpPrompts::execute", identity |-> name, input |-> "{}"]
            /\ doc' = None
            /\ UNCHANGED <<prompts, resources, tools, added, decodeVars, scanVars, sessionVars>>

ResourcesAdd ==
    \E executor \in ResourceHandles :
        /\ resources' = McpResources_add(resources, executor)
        /\ added' = [added EXCEPT !.resources = LatestResources(@, executor)]
        /\ op' = [name |-> "McpResources::add", executor |-> executor]
        /\ ret' = None /\ doc' = None /\ invoked' = <<>>
        /\ UNCHANGED <<prompts, tools, decodeVars, scanVars, sessionVars>>

ResourcesGet ==
    \E uri \in LookupUris :
        /\ ret' = McpResources_get(resources, uri)
        /\ op' = [name |-> "McpResources::get", identity |-> uri]
        /\ doc' = None /\ invoked' = <<>>
        /\ UNCHANGED <<prompts, resources, tools, added, decodeVars, scanVars, sessionVars>>

ResourcesGetList ==
    /\ ret' = McpResources_get_list(resources)
    /\ op' = [name |-> "McpResources::get_list"]
    /\ doc' = None /\ invoked' = <<>>
    /\ UNCHANGED <<prompts, resources, tools, added, decodeVars, scanVars, sessionVars>>

ResourcesRead ==
    \E uri \in LookupUris :
        \E outcome \in McpResources_read(resources, uri) :
            /\ ret' = outcome.ret
            /\ invoked' = outcome.invoked
            /\ op' = [name |-> "McpResources::read", identity |-> uri]
            /\ doc' = None
            /\ UNCHANGED <<prompts, resources, tools, added, decodeVars, scanVars, sessionVars>>

ToolsAdd ==
    \E name \in ToolNames :
        /\ tools' = McpToolCalls_add(tools, name)
        /\ op' = [name |-> "McpToolCalls::add", tool |-> name]
        /\ ret' = None /\ doc' = None /\ invoked' = <<>>
        /\ UNCHANGED <<prompts, resources, added, decodeVars, scanVars, sessionVars>>

\* an initialize request is answered from what the three registries report
InitializeRequest ==
    \E id \in RequestIds :
        /\ ret' = compile_init_response("srv", "1", "hi", "2025-03-26", id,
                    McpToolCalls_has_tools(tools),
                    McpResources_has_resources(resources),
                    McpPrompts_has_prompts(prompts))
        /\ doc' = compile_init_response_json("srv", "1", "hi", "2025-03-26", id,
                    McpToolCalls_has_tools(tools),
                    McpResources_has_resources(resources),
                    McpPrompts_has_prompts(prompts))
        /\ op' = [name |-> "initialize", id |-> id]
        /\ invoked' = <<>>
        /\ UNCHANGED <<prompts, resources, tools, added, decodeVars, scanVars, sessionVars>>

Next ==
    \/ PromptsAdd \/ PromptsGet \/ PromptsGetList \/ PromptsExecute
    \/ ResourcesAdd \/ ResourcesGet \/ ResourcesGetList \/ ResourcesRead
    \/ ToolsAdd \/ InitializeRequest

Spec == Init /\ [][Next]_vars

(***************************************************************************)
(* SpecCompile: the response-compiling functions, each on its inputs       *)
(* The functions are pure: each is applied once, from the idle state, to   *)
(* arguments of the caller's choice.                                       *)
(***************************************************************************)
MaxListed == 2

CompileIds == { I64Zero, I64(FALSE, "7"), I64(TRUE, "12") }

\* the sequences of at most MaxListed members of S
Lists(S) == UNION { [1..n -> S] : n \in 0..MaxListed }

\* ToolCallSchemaData: the tool's name and description and its two schemas
ToolSchemas ==
    { [fn_name |-> "t", description |-> "tool t",
       input |-> <<Member("type", JStr("object"))>>, output |-> <<>>],
      [fn_name |-> "u", description |-> "say \"u\"",
       input |-> <<>>, output |-> <<Member("type", JStr("string"))>>] }

PromptEntries ==
    { [prompt |-> h, argument_descriptions |-> h.argument_descriptions] :
        h \in { PromptExecutor(n, i) : n \in { "a" }, i \in 1..MaxInstances } }

\* ResourceSchemaData: the declared handles, and two descriptors that have
\* only a size, only icons (one of them with sizes)
ResourceEntries ==
    { [resource |-> ResourceExecutor(u, i)] : u \in { "f:a" }, i \in 1..MaxInstances }
    \cup
    { [resource |-> [ResourceExecutor("f:a", 1) EXCEPT !.size = Some("7")]],
      [resource |-> [ResourceExecutor("f:a", 1) EXCEPT
                        !.icons = <<ResourceIcon("i.png", "image/png", <<"16x16", "any">>),
                                    ResourceIcon("j.svg", "image/svg+xml", <<>>)>>]] }

PromptExecutionResults ==
    { [description |-> "greeting", message |-> "hello"],
      [description |-> "", message |-> "say \"hi\""] }

ResourceContent(uri, mime_type, text, blob) ==
    [uri |-> uri, mime_type |-> mime_type, text |-> text, blob |-> blob]

ResourceContents ==
    { ResourceContent("f:a", "text/plain", Some("abc"), None),
      ResourceContent("f:a", "image/png", None, Some("aGk=")),
      ResourceContent("f:a", "text/plain", Some("abc"), Some("aGk=")),
      ResourceContent("f:a", "text/plain", None, None) }

ToolResponses == { "{\"a\":1}", "boom", "" }

InitCompile ==
    /\ CallIdle
    /\ RegistryIdle
    /\ DecodeIdle
    /\ ScanIdle
    /\ SessionIdle

CompileInitResponse ==
    \E id \in CompileIds, has_tools \in BOOLEAN, has_resources \in BOOLEAN,
       has_prompts \in BOOLEAN :
        /\ op = Idle
        /\ op' = [name |-> "compile_init_response", id |-> id, has_tools |-> has_tools, has_resources |-> has_resources, has_prompts |-> has_prompts]
        /\ ret' = compile_init_response("srv", "1", "hi", "2025-03-26", id, has_tools, has_resources, has_prompts)
        /\ doc' = compile_init_response_json("srv", "1", "hi", "2025-03-26", id, has_tools, has_resources, has_prompts)
        /\ UNCHANGED <<registryVars, decodeVars, scanVars, sessionVars>>

CompileToolCalls ==
    \E id \in CompileIds, list \in Lists(ToolSchemas) :
        /\ op = Idle
        /\ op' = [name |-> "compile_tool_calls", id |-> id, tools |-> list]
        /\ ret' = compile_tool_calls(list, id)
        /\ doc' = compile_tool_calls_json(list, id)
        /\ UNCHANGED <<registryVars, decodeVars, scanVars, sessionVars>>

CompilePromptsList ==
    \E id \in CompileIds, list \in Lists(PromptEntries) :
        /\ op = Idle
        /\ op' = [name |-> "compile_prompts_list", id |-> id, prompts |-> list]
        /\ ret' = compile_prompts_list(list, id)
        /\ doc' = compile_prompts_list_json(list, id)
        /\ UNCHANGED <<registryVars, decodeVars, scanVars, sessionVars>>

CompileGetPromptResponse ==
    \E id \in CompileIds, response \in PromptExecutionResults :
        /\ op = Idle
        /\ op' = [name |-> "compile_get_prompt_response", id |-> id, response |-> response]
        /\ ret' = compile_get_prompt_response(response, id)
        /\ doc' = compile_get_prompt_response_json(response, id)
        /\ UNCHANGED <<registryVars, decodeVars, scanVars, sessionVars>>

CompileResourcesList ==
    \E id \in CompileIds, list \in Lists(ResourceEntries),
       next_cursor \in { None, Some("c2") } :
        /\ op = Idle
        /\ op' = [name |-> "compile_resources_list", id |-> id, resources |-> list, next_cursor |-> next_cursor]
        /\ ret' = compile_resources_list(list, id, next_cursor)
        /\ doc' = compile_resources_list_json(list, id, next_cursor)
        /\ UNCHANGED <<registryVars, decodeVars, scanVars, sessionVars>>

CompileReadResourceResponse ==
    \E id \in CompileIds, contents \in Lists(ResourceContents) :
        /\ op = Idle
        /\ op' = [name |-> "compile_read_resource_response", id |-> id, response |-> [contents |-> contents]]
        /\ ret' = compile_read_resource_response([contents |-> contents], id)
        /\ doc' = compile_read_resource_response_json([contents |-> contents], id)
        /\ UNCHANGED <<registryVars, decodeVars, scanVars, sessionVars>>

CompileExecuteToolCallResponse ==
    \E id \in CompileIds, response \in ToolResponses, is_error \in BOOLEAN :
        /\ op = Idle
        /\ op' = [name |-> "compile_execute_tool_call_response", id |-> id, response |-> response, is_error |-> is_error]
        /\ ret' = compile_execute_tool_call_response(response, id, is_error)
        /\ doc' = compile_execute_tool_call_response_json(response, id, is_error)
        /\ UNCHANGED <<registryVars, decodeVars, scanVars, sessionVars>>

BuildPingResponse ==
    \E id \in CompileIds :
        /\ op = Idle
        /\ op' = [name |-> "build_ping_response", id |-> id]
        /\ ret' = build_ping_response(id)
        /\ doc' = build_ping_response_json(id)
        /\ UNCHANGED <<registryVars, decodeVars, scanVars, sessionVars>>

NextCompile ==
    \/ CompileInitResponse \/ CompileToolCalls \/ CompilePromptsList
    \/ CompileGetPromptResponse \/ CompileResourcesList
    \/ CompileReadResourceResponse \/ CompileExecuteToolCallResponse
    \/ BuildPingResponse

SpecCompile == InitCompile /\ [][NextCompile]_vars

(***************************************************************************)
(* SpecSession: the session manager (mod sessions, mod stream_updates).    *)
(* A session is opened by its transport, takes requests and the            *)
(* notifications/initialized notification, writes one frame per answered   *)
(* request to its own output stream, and is closed by a disconnect or an   *)
(* explicit close, which cancels what it has in flight.                    *)
(***************************************************************************)
MaxRequests == 3

\* the request kinds a client sends: the two of the handshake and one other
RequestKinds == { "initialize", "ping", "tools/call" }

RECURSIVE Taken(_)
\* the requests taken for execution so far, over the sessions S
Taken(S) ==
    IF S = {} THEN 0
    ELSE LET s == CHOOSE x \in S : TRUE
         IN  sessions[s].taken + Taken(S \ { s })

\* stage gating, every request kind accepted once Initialized
Accepts_open(stage, method) == stage \in { "Created", "Initialized" }

\* stage gating: Created takes initialize and ping only, Initialized takes
\* every request kind, Closed takes none
Accepts(stage, method) ==
    \/ stage = "Initialized"
    \/ stage = "Created" /\ method \in { "initialize", "ping" }

\* Created is left for Initialized once the initialize response has been
\* sent and notifications/initialized has been received
Promoted(session) ==
    IF session.stage = "Created" /\ session.init_sent /\ session.notified
    THEN [session EXCEPT !.stage = "Initialized"]
    ELSE session

\* closing without a cancellation signal to what is in flight
CancelAll_none(reqs, s) == reqs

\* the cancellation signal to every request the session has in flight
CancelAll(reqs, s) ==
    { [r EXCEPT !.cancelled = @ \/ r.session = s] : r \in reqs }

InitSession ==
    /\ SessionIdle
    /\ ScanIdle
    /\ CallIdle
    /\ RegistryIdle
    /\ DecodeIdle

\* a client connects: the session exists, Created, with its output stream
SessionOpen ==
    \E s \in SessionIds :
        /\ sessions[s].stage = "None"
        /\ sessions' = [sessions EXCEPT ![s] =
                [NoSession EXCEPT !.stage = "Created", !.output = "bound"]]
        /\ op' = [name |-> "open", session |-> s]
        /\ UNCHANGED <<requests, ret, doc>>
        /\ UNCHANGED <<registryVars, decodeVars, scanVars>>

\* a request arrives for a session: it is taken for execution when the
\* session's stage accepts its kind, and rejected otherwise
SessionRequest ==
    \E s \in SessionIds, method \in RequestKinds :
        /\ sessions[s].stage # "None"
        /\ Taken(SessionIds) < MaxRequests
        /\ op' = [name |-> "request", session |-> s, method |-> method,
                  accepted |-> Accepts(sessions[s].stage, method)]
        /\ IF Accepts(sessions[s].stage, method)
           THEN /\ requests' = requests \cup
                        { [session |-> s, id |-> sessions[s].taken + 1,
                           method |-> method, cancelled |-> FALSE] }
                /\ sessions' = [sessions EXCEPT ![s].taken = @ + 1]
           ELSE UNCHANGED <<requests, sessions>>
        /\ UNCHANGED <<ret, doc>>
        /\ UNCHANGED <<registryVars, decodeVars, scanVars>>

\* notifications/initialized arrives for a session that is open
SessionNotified ==
    \E s \in SessionIds :
        /\ sessions[s].stage \in { "Created", "Initialized" }
        /\ sessions' = [sessions EXCEPT ![s] = Promoted([@ EXCEPT !.notified = TRUE])]
        /\ op' = [name |-> "notifications/initialized", session |-> s]
        /\ UNCHANGED <<requests, ret, doc>>
        /\ UNCHANGED <<registryVars, decodeVars, scanVars>>

\* a request's execution ends and its response frame is written to the
\* stream of its session (one writer at a time: the write is one step)
SessionRespond ==
    \E r \in requests :
        /\ ~r.cancelled
        /\ sessions' = [sessions EXCEPT ![r.session] =
                Promoted([@ EXCEPT
                    !.frames = Append(@, [id |-> r.id, method |-> r.method]),
                    !.init_sent = @ \/ r.method = "initialize"])]
        /\ requests' = requests \ { r }
        /\ op' = [name |-> "respond", session |-> r.session, id |-> r.id]
        /\ UNCHANGED <<ret, doc>>
        /\ UNCHANGED <<registryVars, decodeVars, scanVars>>

\* a request in flight sees the cancellation as its result and ends
SessionCancelled ==
    \E r \in requests :
        /\ r.cancelled
        /\ requests' = requests \ { r }
        /\ op' = [name |-> "cancelled", session |-> r.session, id |-> r.id]
        /\ UNCHANGED <<sessions, ret, doc>>
        /\ UNCHANGED <<registryVars, decodeVars, scanVars>>

\* the transport disconnects, or the session is closed explicitly
SessionClose ==
    \E s \in SessionIds, cause \in { "disconnect", "close" } :
        /\ sessions[s].stage \in { "Created", "Initialized" }
        /\ sessions' = [sessions EXCEPT ![s] =
                [@ EXCEPT !.stage = "Closed", !.output = "released"]]
        /\ requests' = CancelAll(requests, s)
        /\ op' = [name |-> cause, session |-> s]
        /\ UNCHANGED <<ret, doc>>
        /\ UNCHANGED <<registryVars, decodeVars, scanVars>>

NextSession ==
    \/ SessionOpen \/ SessionRequest \/ SessionNotified
    \/ SessionRespond \/ SessionCancelled \/ SessionClose

SpecSession == InitSession /\ [][NextSession]_vars

(***************************************************************************)
(* What an envelope says, read off its members (for the properties)        *)
(***************************************************************************)
WellFormed(items) == \A i \in 1..Len(items) : ~items[i].err

Occurrences(items, name) ==
    { i \in 1..Len(items) : ~items[i].err /\ items[i].name = name }

Last(S) == CHOOSE i \in S : \A j \in S : j <= i

\* the value of the last member called name; None when there is none or it is null
LastValue(items, name) ==
    IF Occurrences(items, name) = {} THEN None
    ELSE items[Last(Occurrences(items, name))].value

NonNull(items, name) == { i \in Occurrences(items, name) : items[i].value.some }

ParamsText(items) ==
    IF LastValue(items, "params").some THEN LastValue(items, "params").v ELSE ""

\* The id texts by what they denote: a base-10 integer or not, and the i64 of
\* that value when it has one.
IdMeaning(t) ==
    CASE t = "1" -> [integer |-> TRUE, i64 |-> Some(I64(FALSE, "1"))]
      [] t = "7" -> [integer |-> TRUE, i64 |-> Some(I64(FALSE, "7"))]
      [] t = "-12" -> [integer |-> TRUE, i64 |-> Some(I64(TRUE, "12"))]
      [] t = "1.5" -> [integer |-> FALSE, i64 |-> None]
      [] t = "9223372036854775807" ->
            [integer |-> TRUE, i64 |-> Some(I64(FALSE, "9223372036854775807"))]
      [] t = "9223372036854775808" -> [integer |-> TRUE, i64 |-> None]

\* The params texts each method takes (section 6 of the specification);
\* "" is the text of absent params.
ValidParams(method) ==
    CASE method = "initialize" ->
            { "{\"protocolVersion\":\"2025-03-26\",\"capabilities\":{}}" }
      [] method \in { "resources/read", "resources/subscribe" } -> { "{\"uri\":\"a\"}" }
      [] method = "prompts/get" ->
            { "{\"name\":\"p\"}", "{\"name\":\"t\",\"arguments\":{\"x\":\"1\"}}" }
      [] method = "tools/call" ->
            { "{\"name\":\"t\",\"arguments\":{\"x\":\"1\"}}",
              "{\"name\":\"t\",\"arguments\":{\"x\":1}}" }
      [] OTHER -> ParamTexts \cup { "" }

MandatoryParamsMethods ==
    { "initialize", "resources/read", "resources/subscribe", "prompts/get", "tools/call" }

MethodTable(method) ==
    CASE method = "initialize" -> "Initialize"
      [] method = "notifications/initialized" -> "NotificationsInitialize"
      [] method = "tools/list" -> "ToolsList"
      [] method = "tools/call" -> "ExecuteToolCall"
      [] method = "resources/list" -> "ResourcesList"
      [] method = "resources/read" -> "ReadResource"
      [] method = "resources/subscribe" -> "SubscribeResource"
      [] method = "prompts/list" -> "PromptsList"
      [] method = "prompts/get" -> "GetPrompt"
      [] method = "ping" -> "Ping"

\* src was decoded, and its envelope part is in order: version and method
\* have values and every id value is an i64
Decoded == pc = "done"
EnvelopeInOrder ==
    /\ WellFormed(src)
    /\ LastValue(src, "jsonrpc").some
    /\ LastValue(src, "method").some
    /\ \A i \in NonNull(src, "id") : IdMeaning(src[i].value.v).i64.some
Method == LastValue(src, "method").v

(***************************************************************************)
(* Properties of the decoder (SpecDecode)                                  *)
(***************************************************************************)
ExpectedId ==
    IF NonNull(src, "id") = {} THEN I64Zero
    ELSE IdMeaning(src[Last(NonNull(src, "id"))].value.v).i64.v

\* C1 (as amended): try_parse returns an error, never a payload, when the
\* object is left without a (non-null) jsonrpc value or without a (non-null)
\* method value, or when an id value is neither null nor a base-10 integer
\* of the signed 64-bit range; in every other case where the params are
\* acceptable to the method it returns a payload whose id is the supplied
\* integer, or 0 when id is absent or null.
C1_TryParseResult ==
    Decoded =>
        IF ~WellFormed(src) THEN parsed.kind = "Err"
        ELSE IF \/ ~LastValue(src, "jsonrpc").some
                \/ ~LastValue(src, "method").some
                \/ \E i \in NonNull(src, "id") : ~IdMeaning(src[i].value.v).i64.some
             THEN parsed.kind = "Err"
        ELSE (ParamsText(src) \in ValidParams(Method)) =>
                /\ parsed.kind = "Ok"
                /\ parsed.payload.id = ExpectedId

\* C1 witness: a null id after jsonrpc and method decoded to a payload with id 0
C1_Witness ==
    /\ Decoded
    /\ src = <<Item("jsonrpc", Some("2.0")), Item("method", Some("ping")), Item("id", None)>>
    /\ parsed.kind = "Ok"
    /\ parsed.payload.id = I64Zero

\* C1 as stated: an error when jsonrpc is missing, when method is missing, or
\* when id is present but is not a base-10 integer; otherwise, the params
\* being acceptable, a payload with the supplied integer, or 0 when id is
\* absent.
C1_Original ==
    (Decoded /\ WellFormed(src)) =>
        IF \/ ~LastValue(src, "jsonrpc").some
           \/ ~LastValue(src, "method").some
           \/ \E i \in Occurrences(src, "id") :
                ~src[i].value.some \/ ~IdMeaning(src[i].value.v).integer
        THEN parsed.kind = "Err"
        ELSE (ParamsText(src) \in ValidParams(Method)) => parsed.kind = "Ok"

\* C2: from_str maps each supported method, given valid params, to the variant
\* of the method table, and every other method to Other with that method
\* string and the raw params unchanged, without error.
C2_MethodTable ==
    (Decoded /\ EnvelopeInOrder) =>
        IF Method \in SupportedMethods
        THEN (ParamsText(src) \in ValidParams(Method)) =>
                /\ parsed.kind = "Ok"
                /\ parsed.payload.data.tag = MethodTable(Method)
        ELSE /\ parsed.kind = "Ok"
             /\ parsed.payload.data.tag = "Other"
             /\ parsed.payload.data.method = Method
             /\ parsed.payload.data.data = ParamsText(src)

\* C2 witness: "foo/bar" with params {"a":1} decoded to Other
C2_Witness ==
    /\ Decoded
    /\ EnvelopeInOrder
    /\ Method = "foo/bar"
    /\ ParamsText(src) = "{\"a\":1}"
    /\ parsed.kind = "Ok"
    /\ parsed.payload.data = Other("foo/bar", "{\"a\":1}")

\* C3: for a method with mandatory structured params, malformed or absent
\* params give an error result for that request; the decoding does not
\* panic and the process keeps running.
C3_MalformedParamsRecoverable ==
    (/\ Decoded
     /\ EnvelopeInOrder
     /\ Method \in MandatoryParamsMethods
     /\ ParamsText(src) \notin ValidParams(Method))
        => (parsed.kind = "Err" /\ alive)

\* C10: decoding resources/list never fails: the supplied cursor when the
\* params carry one, no cursor for {} and for absent, empty or malformed
\* params.
C10_ResourcesListNeverFails ==
    (Decoded /\ EnvelopeInOrder /\ Method = "resources/list") =>
        /\ parsed.kind = "Ok"
        /\ parsed.payload.data.tag = "ResourcesList"
        /\ parsed.payload.data.model.cursor =
             (IF ParamsText(src) = "{\"cursor\":\"c1\"}" THEN Some("c1") ELSE None)
        /\ alive

\* C10 witness: a cursor of the wrong type decoded to ResourcesList without cursor
C10_Witness ==
    /\ Decoded
    /\ EnvelopeInOrder
    /\ Method = "resources/list"
    /\ ParamsText(src) = "{\"cursor\":5}"
    /\ parsed.kind = "Ok"
    /\ parsed.payload.data = ResourcesList([cursor |-> None])

(***************************************************************************)
(* Properties of the registries (Spec)                                     *)
(***************************************************************************)
\* the handle last added under an identity, read off the history
LatestPrompt(identity) ==
    IF \E h \in added.prompts : h.prompt_name = identity
    THEN Some(CHOOSE h \in added.prompts : h.prompt_name = identity)
    ELSE None
LatestResource(identity) ==
    IF \E h \in added.resources : h.resource_uri = identity
    THEN Some(CHOOSE h \in added.resources : h.resource_uri = identity)
    ELSE None

\* C4: after any sequence of adds, get(identity) is the handle of the most
\* recent add under that identity and nothing for an identity never added;
\* an add under an existing identity replaces the handle and leaves the
\* handles of the other identities as they were.
C4_GetReturnsLatestAdd ==
    /\ \A n \in LookupNames : McpPrompts_get(prompts, n) = LatestPrompt(n)
    /\ \A u \in LookupUris : McpResources_get(resources, u) = LatestResource(u)
    /\ op.name = "McpPrompts::get" => ret = LatestPrompt(op.identity)
    /\ op.name = "McpResources::get" => ret = LatestResource(op.identity)

\* C4 witness: get returned the second handle declared as "a" while two
\* other prompts are registered
C4_Witness ==
    /\ op.name = "McpPrompts::get"
    /\ op.identity = "a"
    /\ ret = Some(PromptExecutor("a", 2))
    /\ Len(prompts) = 3

StrictlyAscending(ids) ==
    \A i \in 1..Len(ids) : \A j \in 1..Len(ids) : i < j => StrLess(ids[i], ids[j])

\* C5: get_list returns exactly one entry per identity ever added, the handle
\* now registered under it, in strictly ascending byte order of the
\* identity, whatever the order of the adds.
C5_ListSortedOnePerIdentity ==
    LET pl == McpPrompts_get_list(prompts)
        rl == McpResources_get_list(resources)
    IN  /\ StrictlyAscending([i \in 1..Len(pl) |-> pl[i].prompt.prompt_name])
        /\ { pl[i].prompt : i \in 1..Len(pl) } = added.prompts
        /\ Len(pl) = Cardinality({ h.prompt_name : h \in added.prompts })
        /\ StrictlyAscending([i \in 1..Len(rl) |-> rl[i].resource.resource_uri])
        /\ { rl[i].resource : i \in 1..Len(rl) } = added.resources
        /\ Len(rl) = Cardinality({ h.resource_uri : h \in added.resources })
        /\ op.name = "McpPrompts::get_list" => ret = pl
        /\ op.name = "McpResources::get_list" => ret = rl

\* C5 witness: the three prompts listed as B, a, ab
C5_Witness ==
    /\ op.name = "McpPrompts::get_list"
    /\ Len(ret) = 3
    /\ ret[1].prompt.prompt_name = "B"
    /\ ret[2].prompt.prompt_name = "a"
    /\ ret[3].prompt.prompt_name = "ab"

\* C6: execute / read with an identity that is not registered returns an
\* error whose message contains the identity, runs no handler and leaves
\* the registry unchanged; with a registered identity it runs exactly the
\* handle registered under it and returns that handle's result unchanged.
C6_ExecuteDelegates ==
    [][ /\ op'.name = "McpPrompts::execute" =>
            /\ prompts' = prompts /\ resources' = resources
            /\ IF LatestPrompt(op'.identity).some
               THEN /\ invoked' = <<LatestPrompt(op'.identity).v>>
                    /\ ret' \in HandlerResults(LatestPrompt(op'.identity).v, op'.input)
               ELSE /\ invoked' = <<>>
                    /\ ~ret'.ok
                    /\ Contains(ret'.e, op'.identity)
        /\ op'.name = "McpResources::read" =>
            /\ prompts' = prompts /\ resources' = resources
            /\ IF LatestResource(op'.identity).some
               THEN /\ invoked' = <<LatestResource(op'.identity).v>>
                    /\ ret' \in HandlerResults(LatestResource(op'.identity).v, op'.identity)
               ELSE /\ invoked' = <<>>
                    /\ ~ret'.ok
                    /\ Contains(ret'.e, op'.identity)
      ]_vars

\* C6 witness: a read of a URI that is not registered, beside one that is,
\* came back as the not-found error without running a handler
C6_Witness ==
    /\ op.name = "McpResources::read"
    /\ op.identity = "f:ab"
    /\ Len(resources) = 1
    /\ invoked = <<>>
    /\ ret = Err("Resource with URI f:ab is not found")

Capabilities == GetField(GetField(JObj(doc), "result"), "capabilities")

\* C7: the initialize response has capabilities.resources (prompts, tools)
\* if and only if that registry is non-empty, each kind decided on its own,
\* and every sub-object that is there carries listChanged: true.
C7_CapabilityNegotiation ==
    op.name = "initialize" =>
        /\ HasField(Capabilities, "resources") <=> added.resources # {}
        /\ HasField(Capabilities, "prompts") <=> added.prompts # {}
        /\ HasField(Capabilities, "tools") <=> tools # {}
        /\ \A i \in 1..Len(Capabilities.m) :
              /\ Capabilities.m[i].k \in { "resources", "prompts", "tools" }
              /\ Capabilities.m[i].v = JObj(<<Member("listChanged", JBool(TRUE))>>)
        /\ Contains(ret, "\"capabilities\":" \o RenderValue(Capabilities))

\* C7 witness: one resource, no tool and no prompt: capabilities holds only
\* the resources key
C7_Witness ==
    /\ op.name = "initialize"
    /\ added.resources # {} /\ added.prompts = {} /\ tools = {}
    /\ Contains(ret, "\"capabilities\":{\"resources\":{\"listChanged\":true}},")

(***************************************************************************)
(* Properties of the response compiler (SpecCompile)                       *)
(***************************************************************************)
CompileNames ==
    { "compile_init_response", "compile_tool_calls", "compile_prompts_list",
      "compile_resources_list", "compile_get_prompt_response",
      "compile_read_resource_response", "compile_execute_tool_call_response",
      "build_ping_response" }

\* C8: every response-compiling function returns the literal "data: ", then
\* one JSON object with the members jsonrpc "2.0", id (the request id) and
\* result (an object) in that order, then exactly two newline characters.
C8_FrameShape ==
    op.name \in CompileNames =>
        /\ HasField(JObj(doc), "result")
        /\ GetField(JObj(doc), "result").t = "obj"
        /\ ret = ((((("data: " \o "{\"jsonrpc\":\"2.0\",\"id\":") \o I64ToString(op.id))
                    \o ",\"result\":") \o RenderValue(GetField(JObj(doc), "result")))
                  \o "}") \o "\n\n"

ToolResult == GetField(JObj(doc), "result")

\* C9: the tool-call result always has a content array with exactly one
\* {type: "text", text: response} entry and an isError boolean equal to
\* is_error, and has structuredContent if and only if is_error is false.
C9_ToolCallResult ==
    op.name = "compile_execute_tool_call_response" =>
        /\ ret = Framed(JsonBuild(doc))
        /\ HasField(ToolResult, "content")
        /\ GetField(ToolResult, "content") =
             JArr(<<JObj(<<Member("type", JStr("text")),
                           Member("text", JStr(op.response))>>)>>)
        /\ HasField(ToolResult, "isError")
        /\ GetField(ToolResult, "isError") = JBool(op.is_error)
        /\ HasField(ToolResult, "structuredContent") <=> ~op.is_error
        /\ Cardinality({ i \in 1..Len(ToolResult.m) :
                           ToolResult.m[i].k \in { "content", "isError", "structuredContent" } })
             = Len(ToolResult.m)
        /\ Len(ToolResult.m) = IF op.is_error THEN 2 ELSE 3

\* C9 witness: a successful call with the response {"a":1}
C9_Witness ==
    /\ op.name = "compile_execute_tool_call_response"
    /\ op.response = "{\"a\":1}"
    /\ ~op.is_error
    /\ Contains(ret, "\"structuredContent\":{\"a\":1},\"isError\":false")

ResourcesResult == GetField(JObj(doc), "result")
ListedResources == GetField(ResourcesResult, "resources").e

\* C11: in the output of compile_resources_list every resource entry has
\* title iff the descriptor has a title, size iff it has a size, icons iff
\* its icon list is non-empty, the result has nextCursor iff a cursor was
\* passed, none of them is written as null or as an empty placeholder, and
\* every icon written has a sizes array, possibly empty.
C11_ResourcesListOptionalFields ==
    op.name = "compile_resources_list" =>
        /\ ret = Framed(JsonBuild(doc))
        /\ Len(ListedResources) = Len(op.resources)
        /\ \A i \in 1..Len(op.resources) :
              /\ ListedResources[i].t = "obj"
              /\ HasField(ListedResources[i], "title") <=> op.resources[i].resource.title.some
              /\ HasField(ListedResources[i], "title") =>
                    GetField(ListedResources[i], "title")
                      = JStr(op.resources[i].resource.title.v)
              /\ HasField(ListedResources[i], "size") <=> op.resources[i].resource.size.some
              /\ HasField(ListedResources[i], "size") =>
                    GetField(ListedResources[i], "size")
                      = JNum(op.resources[i].resource.size.v)
              /\ HasField(ListedResources[i], "icons")
                    <=> op.resources[i].resource.icons # <<>>
              /\ HasField(ListedResources[i], "icons") =>
                    /\ GetField(ListedResources[i], "icons").t = "arr"
                    /\ Len(GetField(ListedResources[i], "icons").e)
                         = Len(op.resources[i].resource.icons)
                    /\ \A j \in 1..Len(op.resources[i].resource.icons) :
                          /\ GetField(ListedResources[i], "icons").e[j].t = "obj"
                          /\ HasField(GetField(ListedResources[i], "icons").e[j], "sizes")
                          /\ GetField(GetField(ListedResources[i], "icons").e[j], "sizes")
                               = JArr([k \in 1..Len(op.resources[i].resource.icons[j].sizes) |->
                                        JStr(op.resources[i].resource.icons[j].sizes[k])])
        /\ HasField(ResourcesResult, "nextCursor") <=> op.next_cursor.some
        /\ HasField(ResourcesResult, "nextCursor") =>
              GetField(ResourcesResult, "nextCursor") = JStr(op.next_cursor.v)
        /\ Contains(ret, "\"nextCursor\"") <=> op.next_cursor.some
        /\ ~Contains(ret, "null")
        /\ ~Contains(ret, "\"icons\":[]")

\* C11 witness: a bare descriptor and one with icons are listed with a cursor
C11_Witness ==
    /\ op.name = "compile_resources_list"
    /\ Len(op.resources) = 2
    /\ op.resources[1].resource.icons = <<>>
    /\ ~op.resources[1].resource.title.some
    /\ ~op.resources[1].resource.size.some
    /\ Len(op.resources[2].resource.icons) = 2
    /\ op.next_cursor = Some("c2")
    /\ Contains(ret, "\"sizes\":[\"16x16\",\"any\"]")
    /\ Contains(ret, "\"sizes\":[]")
    /\ Contains(ret, ",\"nextCursor\":\"c2\"}")

ReadContents == GetField(GetField(JObj(doc), "result"), "contents").e

\* C12: every entry of a read result, and so every entry of the contents
\* array written by compile_read_resource_response, has exactly one of text
\* and blob: never both and never neither.
C12_ExactlyOneOfTextBlob ==
    op.name = "compile_read_resource_response" =>
        /\ Len(ReadContents) = Len(op.response.contents)
        /\ \A i \in 1..Len(op.response.contents) :
              /\ op.response.contents[i].text.some # op.response.contents[i].blob.some
              /\ HasField(ReadContents[i], "text") # HasField(ReadContents[i], "blob")

(***************************************************************************)
(* Properties of the session manager (SpecSession)                         *)
(***************************************************************************)
Handshake == { "initialize", "ping" }

\* a session that is Initialized has written an initialize response to its
\* own stream and has received notifications/initialized; what executes
\* for a session that is not Initialized is an initialize or a ping
GatingInvariant ==
    /\ \A s \in SessionIds :
          sessions[s].stage = "Initialized" =>
              /\ sessions[s].notified
              /\ \E i \in 1..Len(sessions[s].frames) :
                    sessions[s].frames[i].method = "initialize"
    /\ \A r \in requests :
          (~r.cancelled /\ r.method \notin Handshake) =>
              sessions[r.session].stage = "Initialized"

\* a session starts in Created, Initialized is entered from Created, a
\* request in Created is taken iff it is an initialize or a ping, and a
\* request of another kind is taken only by a session that is Initialized
GatingStep ==
    /\ \A s \in SessionIds :
          /\ (sessions[s].stage = "None" /\ sessions'[s].stage # "None")
                => sessions'[s].stage = "Created"
          /\ (sessions[s].stage # "Initialized" /\ sessions'[s].stage = "Initialized")
                => sessions[s].stage = "Created"
    /\ \A r \in requests' \ requests :
          (~r.cancelled /\ r.method \notin Handshake) =>
              sessions[r.session].stage = "Initialized"
    /\ (op'.name = "request" /\ op' # op /\ sessions[op'.session].stage = "Created")
          => (op'.accepted <=> op'.method \in Handshake)

\* C13: a session starts in Created, where only initialize and ping are
\* accepted; it is Initialized only after its initialize response was sent
\* and its notifications/initialized was received; no request of another
\* kind is executed for a session that is not Initialized.
C13_SessionGating == [](GatingInvariant) /\ [][GatingStep]_vars

\* C13 witness: s1 went through the handshake and executes a tools/call,
\* while s2, still Created, has just had a tools/call rejected
C13_Witness ==
    /\ sessions["s1"].stage = "Initialized"
    /\ \E r \in requests : r.session = "s1" /\ r.method = "tools/call" /\ ~r.cancelled
    /\ sessions["s2"].stage = "Created"
    /\ op = [name |-> "request", session |-> "s2", method |-> "tools/call",
             accepted |-> FALSE]

\* a Closed session has released its stream and everything it still has in
\* flight carries the cancellation
ClosedInvariant ==
    \A s \in SessionIds :
        sessions[s].stage = "Closed" =>
            /\ sessions[s].output = "released"
            /\ \A r \in requests : r.session = s => r.cancelled

\* a Closed session stays Closed with its stream released, gets no further
\* frame, and what it had in flight ends only by seeing the cancellation
ClosedStep ==
    \A s \in SessionIds :
        sessions[s].stage = "Closed" =>
            /\ sessions'[s].stage = "Closed"
            /\ sessions'[s].output = "released"
            /\ sessions'[s].frames = sessions[s].frames
            /\ \A r \in requests :
                  (r.session = s /\ r \notin requests') =>
                      op' = [name |-> "cancelled", session |-> s, id |-> r.id]

\* C14: Closed is terminal: a session that is Closed never leaves Closed,
\* its pending operations are cancelled, its output stream is released and
\* no frame is written to its stream afterwards, also not by the requests
\* that were in flight when it closed.
C14_ClosedTerminal == [](ClosedInvariant) /\ [][ClosedStep]_vars

\* C14 witness: s1 wrote a frame, was closed with a request in flight, and
\* that request has ended by seeing the cancellation
C14_Witness ==
    /\ sessions["s1"].stage = "Closed"
    /\ Len(sessions["s1"].frames) = 1
    /\ sessions["s1"].taken = 2
    /\ op = [name |-> "cancelled", session |-> "s1", id |-> 2]
    /\ \A r \in requests : r.session # "s1"

(***************************************************************************)
(* Properties of the scan (SpecScan)                                       *)
(***************************************************************************)
\* the steps give what try_parse gives as a whole
ScanAgrees == pc = "done" => parsed = try_parse(src)

\* from_str was called: the loop has consumed every item, version and
\* method are bound, and the one call got that method and the params text
HandedAfterScan ==
    calls # <<>> =>
        /\ pc = "done"
        /\ locals.i = Len(src)
        /\ WellFormed(src)
        /\ LastValue(src, "jsonrpc").some
        /\ LastValue(src, "method").some
        /\ calls = <<[method |-> LastValue(src, "method").v, params |-> ParamsText(src)]>>

\* C15 (as amended): the params are handed to from_str only after the scan
\* of the whole object has finished with jsonrpc and method present; an
\* envelope left without jsonrpc or method, or with an id value that is
\* neither null nor an i64, returns an error and no deserialization of the
\* params is attempted, whatever they contain; an envelope in order, a
\* null id included, has its params deserialized exactly once.
C15_ParamsAfterScan ==
    /\ HandedAfterScan
    /\ pc = "done" =>
          IF EnvelopeInOrder THEN Len(calls) = 1
          ELSE parsed.kind = "Err" /\ calls = <<>>

\* C15 witness: an id that is no number, after a method and params that
\* resources/read cannot deserialize, was refused and from_str never ran
C15_Witness ==
    /\ pc = "done"
    /\ src = <<Item("method", Some("resources/read")), Item("params", Some("{}")),
               Item("id", Some("1.5"))>>
    /\ parsed = TryErr("Id is not number. 1.5")
    /\ calls = <<>>

\* C15 as stated: from_str only after the whole scan with jsonrpc and method
\* found; an envelope that lacks jsonrpc or method, or has a non-integer id,
\* returns an error without any params deserialization being attempted.
C15_Original ==
    /\ HandedAfterScan
    /\ (/\ pc = "done"
        /\ \/ ~LastValue(src, "jsonrpc").some
           \/ ~LastValue(src, "method").some
           \/ \E i \in Occurrences(src, "id") :
                ~src[i].value.some \/ ~IdMeaning(src[i].value.v).integer)
          => (parsed.kind = "Err" /\ calls = <<>>)

====
